---- MODULE Spec2Model ----
(***************************************************************************)
(* cppdvt: macros for declaring and calling C++ virtual function tables.   *)
(*                                                                         *)
(* Two revisions of the macros are in the source tree: src/src/lib.rs      *)
(* (handle = NonNull<*mut VTable>, virtual_call!(this, name, args..)) and  *)
(* src/src/macros.rs (handle = VtObject, virtual_call!(obj => name(..))).  *)
(* The variable `version` says which revision's macros are expanded.       *)
(*                                                                         *)
(* Spec        : run time - object memory, handles and virtual_call!.      *)
(* SpecCompile : compile time - vtable! and new_vtable_self! expansion,    *)
(*               cfg evaluation and the struct-literal check.              *)
(***************************************************************************)
EXTENDS Integers, Sequences, FiniteSets, TLC

\* ------------------------------------------------------------------ bounds
\* Longest argument list given to virtual_call!.
MaxArgs == 2
\* Most entries in one new_vtable_self! list.
MaxEntries == 2

\* ---------------------------------------------------------------- universes
Versions == {"lib", "macros"}
\* Addresses of C++ objects (first word = vtable pointer) and of vtables.
ObjAddrs == {16, 24}
VtAddrs == {64, 96}
\* Fields of the vtable struct the run-time objects use.
Slots == {"speak", "kind"}
\* Foreign functions a slot may point at.  "g" is a function whose body
\* re-points the vtable pointer of the object it is called on.
Funcs == {"f", "g"}
ArgVals == {0, 1}
NoVal == "none"

VARIABLES
    version,    \* which revision of the macros is expanded
    objVt,      \* memory: object address -> vtable pointer in its first word
    vtSlots,    \* memory: vtable address -> slot name -> function
    thisExpr,   \* the handle expression given to virtual_call!
    cursor,     \* how many handles the effectful expression has produced
    name,       \* $name: the method called
    params,     \* the argument expressions' values, in source order
    pc,         \* position inside the expansion of virtual_call!
    vt_object,  \* the handle the callee operand was evaluated with
    evals,      \* evaluations of the handle expression in this call
    vtable,     \* vtable pointer read from the object
    func,       \* function pointer read from the slot
    thisArg,    \* raw address passed as the hidden first argument
    argv,       \* arguments evaluated so far
    reads,      \* slots read by this call: set of <<vtable, slot>>
    log,        \* invocations made by this call: [fn, args]
    result,     \* value virtual_call! evaluated to
    mem0,       \* memory when the call started
    rt,         \* raw pointer -> handle -> raw pointer round trip
    target,       \* the target the crate is compiled for
    vtDecl,       \* the vtable! invocation as written
    vtInv,        \* the vtable! invocation being expanded
    structTokens, \* the struct body vtable! expands to
    fields,       \* the struct's fields after cfg evaluation
    nvInv,        \* the new_vtable_self! invocation
    litTokens,    \* the struct literal new_vtable_self! expands to
    literal,      \* the literal's entries after cfg evaluation
    verdict,      \* the compiler's answer to the literal
    built,        \* the vtable value the literal builds: <<field, value>>
    cpc           \* stage of compilation

compVars == <<target, vtDecl, vtInv, structTokens, fields, nvInv, litTokens,
              literal, verdict, built, cpc>>

runVars == <<objVt, vtSlots, thisExpr, cursor, name, params, pc, vt_object,
             evals, vtable, func, thisArg, argv, reads, log, result, mem0,
             rt>>

vars == <<version, objVt, vtSlots, thisExpr, cursor, name, params, pc,
          vt_object, evals, vtable, func, thisArg, argv, reads, log, result,
          mem0, rt, target, vtDecl, vtInv, structTokens, fields, nvInv,
          litTokens, literal, verdict, built, cpc>>

callVars == <<thisExpr, cursor, name, params, pc, vt_object, evals, vtable,
              func, thisArg, argv, reads, log, result, mem0>>

\* ------------------------------------------------------------ object handle
\* lib.rs: VtObject<VTable> = core::ptr::NonNull<*mut VTable>, a transparent
\* wrapper around the object's address.
NonNull_new_unchecked(p) == [nonnull |-> p]

\* Variant of as_ptr that yields the word stored at the object instead of
\* the object's address.
NonNull_as_ptr_deref(h) == objVt[h.nonnull]

NonNull_as_ptr(h) == h.nonnull

\* NonNull::as_ref: the word the handle points at, i.e. the vtable pointer.
NonNull_as_ref(h) == objVt[h.nonnull]

\* macros.rs revision: VtObject is the object itself; a reference to it is
\* the object's address.
VtObject_from_ptr(p) == [ref |-> p]

VtObject_as_ptr(r) == r.ref

VtObject_vtable(r) == objVt[r.ref]

MakeHandle(p) ==
    IF version = "lib" THEN NonNull_new_unchecked(p) ELSE VtObject_from_ptr(p)

RawOf(h) ==
    IF version = "lib" THEN NonNull_as_ptr(h) ELSE VtObject_as_ptr(h)

\* ------------------------------------------------------- handle expressions
\* A place expression names a handle; an effectful one (`it.next()`) yields
\* the next handle of a queue, another object, every time it is evaluated.
SeqsUpTo(S, n) == UNION {[1..k -> S] : k \in 0..n}

ThisExprs ==
    [kind : {"place"}, at : ObjAddrs]
    \cup [kind : {"next"},
          queue : {q \in [1..2 -> ObjAddrs] : q[1] # q[2]}]

EvalThisExpr(e, c) ==
    IF e.kind = "place" THEN MakeHandle(e.at) ELSE MakeHandle(e.queue[c + 1])

EvalCursor(e, c) == IF e.kind = "place" THEN c ELSE c + 1

\* --------------------------------------------------------- foreign functions
FnResult(f, args) == <<f, args>>

OtherVt(v) == CHOOSE w \in VtAddrs : w # v

FnEffect(f, this, mem) ==
    IF f = "g" THEN [mem EXCEPT ![this] = OtherVt(mem[this])] ELSE mem

\* Manual dispatch: read the vtable pointer in the first word of h's object,
\* read field m, call it with (h as raw pointer, a1..ak).
ManualCall(oVt, slots, h, m, args) ==
    LET f == slots[oVt[RawOf(h)]][m]
        a == <<RawOf(h)>> \o args
    IN  [fn |-> f, args |-> a, ret |-> FnResult(f, a)]

\* --------------------------------------------------------------------- Init
\* ------------------------------------------------------ compile-time data
Targets == [windows : BOOLEAN, arch : {"x86", "x86_64"}]

\* Method names with the signatures of the crate's documentation examples:
\* fn kind() -> PetKind;  fn curl(outer_radius: u32);
\* A declaration lists each name at most once (a struct cannot name a
\* field twice).
Names == {"kind", "curl"}

Sig(n) ==
    IF n = "kind" THEN [params |-> <<>>, ret |-> "PetKind"]
    ELSE [params |-> <<"outer_radius: u32">>, ret |-> "()"]

\* $(#[$fn_attr:meta])* / $(#[$set_attr:meta])*: the attribute lists tried.
AttrLists ==
    {<<>>, <<"doc">>, <<"cfg(windows)">>, <<"doc", "cfg(not(windows))">>}

\* The type written after `for` in vtable!, and the implementing type
\* written after `for` in new_vtable_self!.
ForThis == "LizardPtr"
ForImpl == "Lizard"

Range(q) == {q[i] : i \in DOMAIN q}

DistinctNames(q) == \A i, j \in DOMAIN q : q[i].name = q[j].name => i = j

\* cfg(all(windows, target_arch = "x86"))
Win32AnyArch(t) == t.windows

Win32(t) == t.windows /\ t.arch = "x86"

IsCfg(a) ==
    a \in {"cfg(windows)", "cfg(not(windows))", "cfg(win32)",
           "cfg(not(win32))"}

\* rustc's evaluation of one cfg attribute on a target.
CfgHolds(a, t) ==
    CASE a = "cfg(windows)" -> t.windows
      [] a = "cfg(not(windows))" -> ~t.windows
      [] a = "cfg(win32)" -> Win32(t)
      [] a = "cfg(not(win32))" -> ~Win32(t)
      [] OTHER -> TRUE

\* An item is kept when every cfg attribute on it holds.
Kept(attrs, t) == \A i \in DOMAIN attrs : CfgHolds(attrs[i], t)

NonCfg(attrs) == SelectSeq(attrs, LAMBDA a : ~IsCfg(a))

\* $crate::VtObject<$vt_name> (lib.rs) / $crate::VtObjectPtr<$vt_name>
\* (macros.rs): the crate's handle type over the generated struct.
CrateHandle(v) == IF v = "lib" THEN "VtObject<PetVt>" ELSE "VtObjectPtr<PetVt>"

\* Variant of the field type with the object pointer after the declared
\* parameters.
FnPtrTypeThisLast(abi, this, m) ==
    [abi |-> abi, params |-> m.params \o <<this>>, ret |-> m.ret]

\* unsafe extern $abi fn (this: $vt_this, $($fn_param)*) $(-> $fn_ret)?
FnPtrType(abi, this, m) ==
    [abi |-> abi, params |-> <<this>> \o m.params, ret |-> m.ret]

\* lib.rs, first arm: the two fields emitted for one method.
MethodFields_lib(this, m) ==
    << [attrs |-> m.attrs \o <<"cfg(win32)">>, name |-> m.name,
        ty |-> FnPtrType("thiscall", this, m)],
       [attrs |-> <<"cfg(not(win32))">>, name |-> m.name,
        ty |-> FnPtrType("C", this, m)] >>

\* macros.rs, first arm: the two fields emitted for one method.
MethodFields_macros(this, m) ==
    << [attrs |-> <<"cfg(win32)">> \o m.attrs, name |-> m.name,
        ty |-> FnPtrType("thiscall-unwind", this, m)],
       [attrs |-> <<"cfg(not(win32))">> \o m.attrs, name |-> m.name,
        ty |-> FnPtrType("C-unwind", this, m)] >>

MethodFields(v, this, m) ==
    IF v = "lib" THEN MethodFields_lib(this, m)
    ELSE MethodFields_macros(this, m)

\* $( ... )*: the repetition over the methods, in declaration order.
RECURSIVE StructBody(_, _, _)
StructBody(v, this, ms) ==
    IF ms = <<>> THEN <<>>
    ELSE MethodFields(v, this, Head(ms)) \o StructBody(v, this, Tail(ms))

\* rustc drops every item whose cfg fails; the others keep their other
\* attributes.
CfgStrip(tokens, t) ==
    LET kept == SelectSeq(tokens, LAMBDA f : Kept(f.attrs, t))
    IN  [i \in DOMAIN kept |->
            [name |-> kept[i].name, ty |-> kept[i].ty,
             attrs |-> NonCfg(kept[i].attrs)]]

\* Variant of the `for` arm that still takes the methods from Self.
LiteralTokensAlwaysSelf(inv) ==
    [rest |-> FALSE,
     entries |-> [i \in DOMAIN inv.entries |->
                     [attrs |-> inv.entries[i].attrs,
                      name |-> inv.entries[i].name,
                      value |-> <<"Self", inv.entries[i].name>>]]]

\* Variant that completes the literal from a base value (`..base`).
LiteralTokensWithRest(inv) ==
    [rest |-> TRUE,
     entries |-> [i \in DOMAIN inv.entries |->
                     [attrs |-> inv.entries[i].attrs,
                      name |-> inv.entries[i].name,
                      value |-> <<inv.impl, inv.entries[i].name>>]]]

\* new_vtable_self!: $type { $( $(#[$set_attr])* $func_name: Self::$func_name ),* }
\* and, with `for $self`, $func_name: $self::$func_name.
LiteralTokens(inv) ==
    [rest |-> FALSE,
     entries |-> [i \in DOMAIN inv.entries |->
                     [attrs |-> inv.entries[i].attrs,
                      name |-> inv.entries[i].name,
                      value |-> <<inv.impl, inv.entries[i].name>>]]]

LiteralStrip(lit, t) ==
    LET kept == SelectSeq(lit.entries, LAMBDA e : Kept(e.attrs, t))
    IN  [i \in DOMAIN kept |-> [name |-> kept[i].name, value |-> kept[i].value]]

FieldNames(fs) == {fs[i].name : i \in DOMAIN fs}

\* rustc's check of a struct literal `$type { f: v, .. }`: every field named
\* once (E0062), only fields of the struct (E0560), none missing unless the
\* literal has a base (E0063).
LiteralAccepted(lit, rest, fs) ==
    /\ DistinctNames(lit)
    /\ FieldNames(lit) \subseteq FieldNames(fs)
    /\ (rest \/ FieldNames(fs) \subseteq FieldNames(lit))

NoVtInv == [form |-> "none", this |-> NoVal, methods |-> <<>>]
NoNvInv == [form |-> "none", impl |-> NoVal, entries |-> <<>>]
NoLitTokens == [rest |-> FALSE, entries |-> <<>>]

NothingCompiled ==
    /\ target = [windows |-> FALSE, arch |-> "x86_64"]
    /\ vtDecl = NoVtInv
    /\ vtInv = NoVtInv
    /\ structTokens = <<>>
    /\ fields = <<>>
    /\ nvInv = NoNvInv
    /\ litTokens = NoLitTokens
    /\ literal = <<>>
    /\ verdict = "none"
    /\ built = {}
    /\ cpc = "start"

\* No virtual call in progress and none recorded.
NoCall ==
    [thisExpr |-> [kind |-> "place", at |-> 16], cursor |-> 0,
     name |-> "speak", params |-> <<>>, vt_object |-> NoVal, evals |-> 0,
     vtable |-> NoVal, func |-> NoVal, thisArg |-> NoVal, argv |-> <<>>,
     reads |-> {}, log |-> <<>>, result |-> NoVal]

NoRoundTrip == [stage |-> "none", in |-> NoVal, h |-> NoVal, out |-> NoVal]

Init ==
    /\ version \in Versions
    /\ objVt \in [ObjAddrs -> VtAddrs]
    /\ vtSlots \in [VtAddrs -> [Slots -> Funcs]]
    /\ thisExpr = NoCall.thisExpr
    /\ cursor = 0
    /\ name = NoCall.name
    /\ params = <<>>
    /\ pc = "idle"
    /\ vt_object = NoVal
    /\ evals = 0
    /\ vtable = NoVal
    /\ func = NoVal
    /\ thisArg = NoVal
    /\ argv = <<>>
    /\ reads = {}
    /\ log = <<>>
    /\ result = NoVal
    /\ mem0 = [objVt |-> objVt, vtSlots |-> vtSlots]
    /\ rt = NoRoundTrip
    /\ NothingCompiled

\* ------------------------------------------------------------ virtual_call!
\* The call site: virtual_call!(e, m, a1, .., ak) in lib.rs (the arm without
\* arguments re-invokes the macro with an empty list) and
\* virtual_call!(e => m(a1, .., ak)) in macros.rs.
StartCall ==
    /\ pc \in {"idle", "done"}
    /\ \E e \in ThisExprs, m \in Slots, a \in SeqsUpTo(ArgVals, MaxArgs) :
          /\ thisExpr' = e
          /\ name' = m
          /\ params' = a
    /\ cursor' = 0
    /\ pc' = "this"
    /\ vt_object' = NoVal
    /\ evals' = 0
    /\ vtable' = NoVal
    /\ func' = NoVal
    /\ thisArg' = NoVal
    /\ argv' = <<>>
    /\ reads' = {}
    /\ log' = <<>>
    /\ result' = NoVal
    /\ mem0' = [objVt |-> objVt, vtSlots |-> vtSlots]
    /\ rt' = NoRoundTrip
    /\ UNCHANGED <<version, objVt, vtSlots>>
    /\ UNCHANGED compVars

\* lib.rs: the callee operand (&**($this.as_ref())).$name evaluates $this.
EvalThisCallee ==
    /\ pc = "this"
    /\ version = "lib"
    /\ vt_object' = EvalThisExpr(thisExpr, cursor)
    /\ cursor' = EvalCursor(thisExpr, cursor)
    /\ evals' = evals + 1
    /\ pc' = "vtable"
    /\ UNCHANGED <<version, objVt, vtSlots, thisExpr, name, params, vtable,
                   func, thisArg, argv, reads, log, result, mem0, rt>>
    /\ UNCHANGED compVars

\* macros.rs: let vt_object = &$vt_object;
LetVtObject ==
    /\ pc = "this"
    /\ version = "macros"
    /\ vt_object' = EvalThisExpr(thisExpr, cursor)
    /\ cursor' = EvalCursor(thisExpr, cursor)
    /\ evals' = evals + 1
    /\ pc' = "vtable"
    /\ UNCHANGED <<version, objVt, vtSlots, thisExpr, name, params, vtable,
                   func, thisArg, argv, reads, log, result, mem0, rt>>
    /\ UNCHANGED compVars

\* Variant of the vtable read that moves the pointer out of the object
\* (as ptr::replace would) and leaves the other vtable's address behind.
ReadVtableReplace ==
    /\ pc = "vtable"
    /\ vtable' = IF version = "lib" THEN NonNull_as_ref(vt_object)
                                    ELSE VtObject_vtable(vt_object)
    /\ objVt' = [objVt EXCEPT ![RawOf(vt_object)] = OtherVt(@)]
    /\ pc' = "slot"
    /\ UNCHANGED <<version, vtSlots, thisExpr, cursor, name, params,
                   vt_object, evals, func, thisArg, argv, reads, log, result,
                   mem0, rt>>
    /\ UNCHANGED compVars

\* lib.rs: **($this.as_ref());  macros.rs: VtObject::vtable(vt_object).
ReadVtable ==
    /\ pc = "vtable"
    /\ vtable' = IF version = "lib" THEN NonNull_as_ref(vt_object)
                                    ELSE VtObject_vtable(vt_object)
    /\ pc' = "slot"
    /\ UNCHANGED <<version, objVt, vtSlots, thisExpr, cursor, name, params,
                   vt_object, evals, func, thisArg, argv, reads, log, result,
                   mem0, rt>>
    /\ UNCHANGED compVars

\* Variant of the slot read that ignores $name and reads a fixed field.
ReadSlotFixed ==
    /\ pc = "slot"
    /\ func' = vtSlots[vtable]["speak"]
    /\ reads' = reads \cup {<<vtable, "speak">>}
    /\ pc' = "thisarg"
    /\ UNCHANGED <<version, objVt, vtSlots, thisExpr, cursor, name, params,
                   vt_object, evals, vtable, thisArg, argv, log, result,
                   mem0, rt>>
    /\ UNCHANGED compVars

\* (..).$name: the function pointer is copied out of the slot.
ReadSlot ==
    /\ pc = "slot"
    /\ func' = vtSlots[vtable][name]
    /\ reads' = reads \cup {<<vtable, name>>}
    /\ pc' = "thisarg"
    /\ UNCHANGED <<version, objVt, vtSlots, thisExpr, cursor, name, params,
                   vt_object, evals, vtable, thisArg, argv, log, result,
                   mem0, rt>>
    /\ UNCHANGED compVars

\* lib.rs: virtual_call_raw!'s first argument is $this, evaluated again.
ThisArgLib ==
    /\ pc = "thisarg"
    /\ version = "lib"
    /\ thisArg' = NonNull_as_ptr(EvalThisExpr(thisExpr, cursor))
    /\ cursor' = EvalCursor(thisExpr, cursor)
    /\ evals' = evals + 1
    /\ pc' = "args"
    /\ UNCHANGED <<version, objVt, vtSlots, thisExpr, name, params,
                   vt_object, vtable, func, argv, reads, log, result, mem0,
                   rt>>
    /\ UNCHANGED compVars

\* macros.rs: the first argument is VtObject::as_ptr(vt_object).
ThisArgMacros ==
    /\ pc = "thisarg"
    /\ version = "macros"
    /\ thisArg' = VtObject_as_ptr(vt_object)
    /\ pc' = "args"
    /\ UNCHANGED <<version, objVt, vtSlots, thisExpr, cursor, name, params,
                   vt_object, evals, vtable, func, argv, reads, log, result,
                   mem0, rt>>
    /\ UNCHANGED compVars

\* $($param,)* / $($arg)*: the next argument expression, in source order.
\* Variant that takes the argument expressions from the last to the first.
NextArgReversed(done, all) == Append(done, all[Len(all) - Len(done)])

NextArg(done, all) == Append(done, all[Len(done) + 1])

EvalArg ==
    /\ pc = "args"
    /\ Len(argv) < Len(params)
    /\ argv' = NextArg(argv, params)
    /\ UNCHANGED <<version, objVt, vtSlots, thisExpr, cursor, name, params,
                   pc, vt_object, evals, vtable, func, thisArg, reads, log,
                   result, mem0, rt>>
    /\ UNCHANGED compVars

\* ($func)(this, args..): the foreign function runs and returns.
Invoke ==
    /\ pc = "args"
    /\ Len(argv) = Len(params)
    /\ LET a == <<thisArg>> \o argv
       IN  /\ log' = Append(log, [fn |-> func, args |-> a])
           /\ result' = FnResult(func, a)
           /\ objVt' = FnEffect(func, thisArg, objVt)
    /\ pc' = "done"
    /\ UNCHANGED <<version, vtSlots, thisExpr, cursor, name, params,
                   vt_object, evals, vtable, func, thisArg, argv, reads,
                   mem0, rt>>
    /\ UNCHANGED compVars

\* ----------------------------------------------------------- round trip
\* The program turns a raw pointer into a handle; the record of the last
\* virtual call is dropped.
FromPtr ==
    /\ pc \in {"idle", "done"}
    /\ \E p \in ObjAddrs :
          rt' = [stage |-> "made", in |-> p, h |-> MakeHandle(p),
                 out |-> NoVal]
    /\ pc' = "idle"
    /\ thisExpr' = NoCall.thisExpr
    /\ cursor' = NoCall.cursor
    /\ name' = NoCall.name
    /\ params' = NoCall.params
    /\ vt_object' = NoCall.vt_object
    /\ evals' = NoCall.evals
    /\ vtable' = NoCall.vtable
    /\ func' = NoCall.func
    /\ thisArg' = NoCall.thisArg
    /\ argv' = NoCall.argv
    /\ reads' = NoCall.reads
    /\ log' = NoCall.log
    /\ result' = NoCall.result
    /\ mem0' = [objVt |-> objVt, vtSlots |-> vtSlots]
    /\ UNCHANGED <<version, objVt, vtSlots>>
    /\ UNCHANGED compVars

\* ... and gets the raw pointer back from the handle.
AsPtr ==
    /\ pc = "idle"
    /\ rt.stage = "made"
    /\ rt' = [rt EXCEPT !.stage = "back", !.out = RawOf(rt.h)]
    /\ UNCHANGED <<version, objVt, vtSlots>>
    /\ UNCHANGED compVars
    /\ UNCHANGED callVars

Next ==
    \/ StartCall
    \/ EvalThisCallee
    \/ LetVtObject
    \/ ReadVtable
    \/ ReadSlot
    \/ ThisArgLib
    \/ ThisArgMacros
    \/ EvalArg
    \/ Invoke
    \/ FromPtr
    \/ AsPtr

Spec == Init /\ [][Next]_vars

\* ------------------------------------------------------------ compile time
MethodDecls ==
    {[name |-> n, attrs |-> a, params |-> Sig(n).params, ret |-> Sig(n).ret] :
        n \in Names, a \in AttrLists}

VtableInvocations ==
    {[form |-> f, this |-> IF f = "for" THEN ForThis ELSE NoVal, methods |-> ms] :
        f \in {"for", "default"},
        ms \in {q \in SeqsUpTo(MethodDecls, Cardinality(Names)) :
                    DistinctNames(q)}}

Entries == [name : Names, attrs : AttrLists]

NewVtableSelfInvocations ==
    {[form |-> f, impl |-> IF f = "for" THEN ForImpl ELSE "Self", entries |-> es] :
        f \in {"for", "self"}, es \in SeqsUpTo(Entries, MaxEntries)}

InitCompile ==
    /\ version \in Versions
    /\ target \in Targets
    /\ vtDecl = NoVtInv
    /\ vtInv = NoVtInv
    /\ structTokens = <<>>
    /\ fields = <<>>
    /\ nvInv = NoNvInv
    /\ litTokens = NoLitTokens
    /\ literal = <<>>
    /\ verdict = "none"
    /\ built = {}
    /\ cpc = "start"
    /\ objVt = [o \in ObjAddrs |-> 64]
    /\ vtSlots = [v \in VtAddrs |-> [m \in Slots |-> "f"]]
    /\ thisExpr = NoCall.thisExpr
    /\ cursor = 0
    /\ name = NoCall.name
    /\ params = <<>>
    /\ pc = "idle"
    /\ vt_object = NoVal
    /\ evals = 0
    /\ vtable = NoVal
    /\ func = NoVal
    /\ thisArg = NoVal
    /\ argv = <<>>
    /\ reads = {}
    /\ log = <<>>
    /\ result = NoVal
    /\ mem0 = [objVt |-> objVt, vtSlots |-> vtSlots]
    /\ rt = NoRoundTrip

\* A vtable! { .. } invocation in the crate being compiled.
DeclareVtable ==
    /\ cpc = "start"
    /\ \E inv \in VtableInvocations :
          /\ vtDecl' = inv
          /\ vtInv' = inv
    /\ cpc' = "declared"
    /\ UNCHANGED <<version, target, structTokens, fields, nvInv, litTokens,
                   literal, verdict, built>>
    /\ UNCHANGED runVars

\* vtable!, second arm: no `for`; re-invokes vtable! with the crate's handle
\* type over the struct as the this type.
ExpandVtableDefault ==
    /\ cpc = "declared"
    /\ vtInv.form = "default"
    /\ vtInv' = [form |-> "for", this |-> CrateHandle(version),
                 methods |-> vtInv.methods]
    /\ UNCHANGED <<version, target, vtDecl, structTokens, fields, nvInv,
                   litTokens, literal, verdict, built, cpc>>
    /\ UNCHANGED runVars

\* vtable!, first arm: emits the #[repr(C)] struct.
ExpandVtableFor ==
    /\ cpc = "declared"
    /\ vtInv.form = "for"
    /\ structTokens' = StructBody(version, vtInv.this, vtInv.methods)
    /\ cpc' = "tokens"
    /\ UNCHANGED <<version, target, vtDecl, vtInv, fields, nvInv, litTokens,
                   literal, verdict, built>>
    /\ UNCHANGED runVars

\* The compiler evaluates the cfg attributes of the struct's fields.
CfgStripStruct ==
    /\ cpc = "tokens"
    /\ fields' = CfgStrip(structTokens, target)
    /\ cpc' = "struct"
    /\ UNCHANGED <<version, target, vtDecl, vtInv, structTokens, nvInv,
                   litTokens, literal, verdict, built>>
    /\ UNCHANGED runVars

\* A new_vtable_self!(PetVt { .. }) invocation and its expansion.
ExpandNewVtableSelf ==
    /\ cpc = "struct"
    /\ \E inv \in NewVtableSelfInvocations :
          /\ nvInv' = inv
          /\ litTokens' = LiteralTokens(inv)
    /\ cpc' = "lit"
    /\ UNCHANGED <<version, target, vtDecl, vtInv, structTokens, fields,
                   literal, verdict, built>>
    /\ UNCHANGED runVars

\* The compiler evaluates the literal's cfg attributes and checks it against
\* the struct; only an accepted literal builds a vtable value.
CompileLiteral ==
    /\ cpc = "lit"
    /\ LET lit == LiteralStrip(litTokens, target)
           ok == LiteralAccepted(lit, litTokens.rest, fields)
       IN  /\ literal' = lit
           /\ verdict' = IF ok THEN "accepted" ELSE "rejected"
           /\ built' = IF ok THEN {<<lit[i].name, lit[i].value>> : i \in DOMAIN lit}
                       ELSE {}
    /\ cpc' = "checked"
    /\ UNCHANGED <<version, target, vtDecl, vtInv, structTokens, fields,
                   nvInv, litTokens>>
    /\ UNCHANGED runVars

NextCompile ==
    \/ DeclareVtable
    \/ ExpandVtableDefault
    \/ ExpandVtableFor
    \/ CfgStripStruct
    \/ ExpandNewVtableSelf
    \/ CompileLiteral

SpecCompile == InitCompile /\ [][NextCompile]_vars

\* ---------------------------------------------------- compile-time claims
StructDone == cpc \in {"struct", "lit", "checked"}

Declared == vtDecl.methods

\* The configured this type: the type after `for`, or the crate's handle type.
ThisType == IF vtDecl.form = "for" THEN ForThis ELSE CrateHandle(version)

MethodCfgHolds(m) ==
    \A i \in DOMAIN m.attrs :
        /\ (m.attrs[i] = "cfg(windows)" => target.windows)
        /\ (m.attrs[i] = "cfg(not(windows))" => ~target.windows)

SignatureAsDeclared(f, m) ==
    /\ f.name = m.name
    /\ f.ty.params = <<ThisType>> \o m.params
    /\ f.ty.ret = m.ret

\* Position of the method a field is named after.
DeclPos(n) == CHOOSE k \in DOMAIN Declared : Declared[k].name = n

\* C1 as stated: for every declaration of N methods and every target, the
\* struct has exactly N fields, named m1..mN in declaration order, field mi
\* being a function pointer taking the this type, then mi's parameters, and
\* returning mi's return type.
C1_ExactlyNFields ==
    StructDone =>
        /\ Len(fields) = Len(Declared)
        /\ \A i \in DOMAIN fields : SignatureAsDeclared(fields[i], Declared[i])

\* C1: the struct's fields are named after declared methods, at most one per
\* method and in declaration order; they are exactly m1..mN when no method
\* carries a cfg attribute that is false on the target; every field mi is a
\* function pointer taking the this type, then mi's declared parameters, and
\* returning mi's declared return type.
C1_FieldsOfKeptMethods ==
    StructDone =>
        /\ \A i \in DOMAIN fields :
              /\ fields[i].name \in FieldNames(Declared)
              /\ SignatureAsDeclared(fields[i], Declared[DeclPos(fields[i].name)])
        /\ \A i, j \in DOMAIN fields :
              i < j => DeclPos(fields[i].name) < DeclPos(fields[j].name)
        /\ ((\A k \in DOMAIN Declared : MethodCfgHolds(Declared[k])) =>
              /\ Len(fields) = Len(Declared)
              /\ \A i \in DOMAIN fields : fields[i].name = Declared[i].name)

C1_Witness ==
    /\ StructDone
    /\ vtDecl.form = "default"
    /\ Len(Declared) = 2
    /\ Declared[1].name = "curl"
    /\ Declared[1].attrs = <<"cfg(windows)">>
    /\ target.windows
    /\ Len(fields) = 2
    /\ fields[1].ty.params = <<CrateHandle(version), "outer_radius: u32">>

FieldsFor(m) == {i \in DOMAIN fields : fields[i].name = m.name}

ThiscallAbis == {"thiscall", "thiscall-unwind"}
CAbis == {"C", "C-unwind"}

AbiByTarget(f) ==
    IF target.windows /\ target.arch = "x86" THEN f.ty.abi \in ThiscallAbis
    ELSE f.ty.abi \in CAbis

\* C4 as stated: on every target exactly one function-pointer field is
\* emitted for every declared method; it is thiscall exactly on Windows with
\* 32-bit x86 and C on every other target.
C4_ExactlyOneFieldPerMethod ==
    StructDone =>
        \A k \in DOMAIN Declared :
            /\ Cardinality(FieldsFor(Declared[k])) = 1
            /\ \A i \in FieldsFor(Declared[k]) : AbiByTarget(fields[i])

\* C4: on every target at most one function-pointer field is emitted for a
\* declared method, and exactly one when the method's own cfg attributes hold
\* on the target; an emitted field is thiscall exactly on Windows with 32-bit
\* x86 and C on every other target.
C4_ConventionByTarget ==
    StructDone =>
        \A k \in DOMAIN Declared :
            /\ Cardinality(FieldsFor(Declared[k])) <= 1
            /\ (MethodCfgHolds(Declared[k]) =>
                    Cardinality(FieldsFor(Declared[k])) = 1)
            /\ \A i \in FieldsFor(Declared[k]) : AbiByTarget(fields[i])

C4_Witness ==
    /\ StructDone
    /\ target.windows
    /\ target.arch = "x86_64"
    /\ Len(Declared) = 2
    /\ Len(fields) = 2
    /\ fields[2].ty.abi \in CAbis

\* Entry e of the new_vtable_self! list is in the literal after cfg
\* evaluation.
EntryInLiteral(e) ==
    LiteralStrip([rest |-> litTokens.rest,
                  entries |-> <<litTokens.entries[e]>>], target) # <<>>

\* C3: every attribute attached to a method in a vtable! declaration is on
\* the generated field for that method on every target, so that, whatever
\* the cfg attribute and the target, a method is in the generated struct
\* exactly when the same-attributed entry is in the new_vtable_self! literal
\* for that struct.
C3_AttributesPropagated ==
    cpc = "checked" =>
        \A k \in DOMAIN Declared : \A e \in DOMAIN nvInv.entries :
            (/\ nvInv.entries[e].name = Declared[k].name
             /\ nvInv.entries[e].attrs = Declared[k].attrs) =>
                (Declared[k].name \in FieldNames(fields) <=> EntryInLiteral(e))

\* The implementing type new_vtable_self! was asked for.
Implementor == IF nvInv.form = "for" THEN ForImpl ELSE "Self"

\* C5: the literal new_vtable_self! produces has, for each listed name m in
\* order, the entry `m: Self::m` (`m: X::m` with `for X`) under m's
\* attributes and no other entry, so every field the built vtable sets is
\* set to the implementing type's method of the same name.
C5_FieldsPointAtOwnMethods ==
    cpc \in {"lit", "checked"} =>
        /\ Len(litTokens.entries) = Len(nvInv.entries)
        /\ \A i \in DOMAIN litTokens.entries :
              /\ litTokens.entries[i].name = nvInv.entries[i].name
              /\ litTokens.entries[i].attrs = nvInv.entries[i].attrs
              /\ litTokens.entries[i].value = <<Implementor, nvInv.entries[i].name>>
        /\ \A b \in built : b[2] = <<Implementor, b[1]>>

C5_Witness ==
    /\ cpc = "checked"
    /\ nvInv.form = "for"
    /\ verdict = "accepted"
    /\ built = {<<"kind", <<ForImpl, "kind">>>>, <<"curl", <<ForImpl, "curl">>>>}

ListedNames == {nvInv.entries[i].name : i \in DOMAIN nvInv.entries}

\* C8 as stated: a list of method names that is not exactly the set of
\* fields of the struct on the current target is rejected at compile time
\* and no vtable value is produced.
C8_MismatchedListRejected ==
    (/\ cpc = "checked"
     /\ \/ ListedNames # FieldNames(fields)
        \/ Len(nvInv.entries) # Len(fields)) =>
        (verdict = "rejected" /\ built = {})

\* The entries of the list whose cfg attributes hold on the target.
SurvivingEntries ==
    SelectSeq(nvInv.entries, LAMBDA e : MethodCfgHolds(e))

\* C8: a list whose entries remaining after cfg evaluation on the current
\* target are not exactly the fields of the struct on that target (a field
\* missing, an extra name, or a different count) is rejected at compile time
\* and no vtable value is produced.
C8_MismatchedEntriesRejected ==
    (/\ cpc = "checked"
     /\ \/ FieldNames(SurvivingEntries) # FieldNames(fields)
        \/ Len(SurvivingEntries) # Len(fields)) =>
        (verdict = "rejected" /\ built = {})

C8_Witness ==
    /\ cpc = "checked"
    /\ Len(fields) = 2
    /\ Len(SurvivingEntries) = 1
    /\ Len(nvInv.entries) = 1
    /\ verdict = "rejected"

\* ------------------------------------------------------- run-time claims
\* The handle a place expression names.
PlaceHandle == MakeHandle(thisExpr.at)

CallOnHandle == pc = "done" /\ thisExpr.kind = "place"

\* C2: virtual_call! on a handle h for method m with arguments a1..ak calls
\* the same function with the same arguments in the same order, and returns
\* the same result, as reading the vtable pointer in the first word of h's
\* object, reading field m and calling it with (h as raw pointer, a1..ak).
C2_DispatchEqualsManual ==
    CallOnHandle =>
        LET man == ManualCall(mem0.objVt, mem0.vtSlots, PlaceHandle, name,
                              params)
        IN  /\ log = <<[fn |-> man.fn, args |-> man.args]>>
            /\ result = man.ret

C2_Witness ==
    /\ CallOnHandle
    /\ params = <<0, 1>>
    /\ name = "kind"
    /\ mem0.vtSlots[mem0.objVt[thisExpr.at]]["kind"]
          # mem0.vtSlots[mem0.objVt[thisExpr.at]]["speak"]
    /\ Len(log) = 1

C7_SingleInvocation ==
    (CallOnHandle /\ params = <<>>) =>
        /\ Len(log) = 1
        /\ reads = {<<mem0.objVt[thisExpr.at], name>>}
        /\ log[1].fn = mem0.vtSlots[mem0.objVt[thisExpr.at]][name]
        /\ log[1].args = <<thisExpr.at>>

C7_Witness ==
    /\ CallOnHandle
    /\ params = <<>>
    /\ name = "kind"
    /\ log = <<[fn |-> "g", args |-> <<24>>]>>
    /\ mem0.vtSlots[mem0.objVt[24]]["speak"] = "f"

\* The steps of virtual_call! before the invoked function's body runs.
InDispatch == pc \in {"this", "vtable", "slot", "thisarg", "args"}

\* C9: the steps virtual_call! performs up to and excluding the body of the
\* invoked function leave the handle value, the vtable pointer stored in the
\* object's first word and every slot of the vtable unchanged.
C9_DispatchFrame ==
    [][(InDispatch /\ pc' # "done") =>
          /\ objVt' = objVt
          /\ vtSlots' = vtSlots
          /\ thisExpr' = thisExpr
          /\ (pc # "this" => vt_object' = vt_object)]_vars

C9_Witness ==
    /\ pc = "args"
    /\ Len(argv) = Len(params)
    /\ func = "g"
    /\ objVt = mem0.objVt
    /\ vtSlots = mem0.vtSlots

\* C10: in every virtual_call!, whatever the handle expression (also one
\* with side effects, or one that yields another handle each time), the
\* expression is evaluated exactly once, so the vtable slot m is read from
\* always belongs to the object whose address is passed as the hidden first
\* argument.
C10_HandleEvaluatedOnce ==
    pc = "done" =>
        /\ (thisExpr.kind = "next" => evals = 1)
        /\ vtable = mem0.objVt[thisArg]

====
